---- MODULE Spec2Model ----
(***************************************************************************)
(* Model of scripts/data-shippers/Mordor-Elastic.py: the record            *)
(* normalisation rules of generate_actions and the shipping loop that      *)
(* drives archive members through them into Elasticsearch or Logstash.     *)
(***************************************************************************)
EXTENDS Integers, Sequences, FiniteSets, TLC

(***************************************************************************)
(* JSON values.  A decoded value is a tagged pair: <<"s", text>> for a     *)
(* scalar and <<"d", f>> for a mapping, f a function from key strings to   *)
(* values.  A raised Python exception is <<"x", name>>.                    *)
(***************************************************************************)
Str(s) == <<"s", s>>

Dict(f) == <<"d", f>>

Exc(name) == <<"x", name>>

EmptyDict == Dict(<<>>)

IsDict(v) == v[1] = "d"

IsExc(v) == v[1] = "x"

Keys(d) == DOMAIN d[2]

Has(d, k) == k \in DOMAIN d[2]

Get(d, k) == d[2][k]

Put(d, k, v) == Dict([j \in (DOMAIN d[2]) \cup {k} |-> IF j = k THEN v ELSE d[2][j]])

Del(d, k) == Dict([j \in (DOMAIN d[2]) \ {k} |-> d[2][j]])

\* del source[k] inside try/except KeyError: pass
DelIfPresent(d, k) == IF Has(d, k) THEN Del(d, k) ELSE d

\* the comprehension {k: v for k, v in d.items() if k not in excluded}
Without(d, excluded) == Dict([j \in (DOMAIN d[2]) \ excluded |-> d[2][j]])

\* source["winlog"][k] = v ; a winlog that is not a mapping raises TypeError
PutWinlog(source, k, v) ==
    IF IsDict(Get(source, "winlog"))
    THEN Put(source, "winlog", Put(Get(source, "winlog"), k, v))
    ELSE Exc("TypeError")

\* del source[k], skipped when an exception is already propagating
Drop(source, k) == IF IsExc(source) THEN source ELSE Del(source, k)

\* for k in ks: del source[k], skipped when an exception is already propagating
DropAll(source, ks) == IF IsExc(source) THEN source ELSE Without(source, ks)

(***************************************************************************)
(* The normalisation rules, lines 89-152 of generate_actions.  Each rule   *)
(* passes an exception raised before it through unchanged.                 *)
(***************************************************************************)
\* line 89: json.loads(line); a line that is not JSON raises
BadJson == Str("{not json")

JsonLoads(line) == IF line = BadJson THEN Exc("JSONDecodeError") ELSE line

\* line 90
SetLog(source, logfile) == Put(source, "log", Dict([file |-> Dict([name |-> Str(logfile)])]))

\* line 91
SetDefaultWinlog(source) == IF Has(source, "winlog") THEN source ELSE Put(source, "winlog", EmptyDict)

\* lines 96-97
MoveEventId(source) == Drop(PutWinlog(source, "event_id", Get(source, "EventID")), "EventID")

\* lines 100-108
DiscardUnneeded(source) ==
    IF IsExc(source) THEN source ELSE DelIfPresent(DelIfPresent(source, "type"), "host")

ReservedNoVersion == {"winlog", "log", "Channel", "Hostname", "@timestamp"}

ReservedNoLog == {"winlog", "Channel", "Hostname", "@timestamp", "@version"}

\* line 114
Reserved == {"winlog", "log", "Channel", "Hostname", "@timestamp", "@version"}

\* lines 111-117
MoveToEventData(source) ==
    IF IsExc(source) THEN source
    ELSE DropAll(PutWinlog(source, "event_data", Without(source, Reserved)),
                 Keys(Without(source, Reserved)))

\* lines 120-124
MoveHostname(source) ==
    IF IsExc(source) THEN source
    ELSE IF Has(source, "Hostname")
         THEN Drop(PutWinlog(source, "computer_name", Get(source, "Hostname")), "Hostname")
         ELSE source

\* lines 127-131
MoveChannel(source) ==
    IF IsExc(source) THEN source
    ELSE IF Has(source, "Channel")
         THEN Drop(PutWinlog(source, "channel", Get(source, "Channel")), "Channel")
         ELSE source

\* lines 94-131
NxlogRule(source) ==
    IF Has(source, "EventID")
    THEN MoveChannel(MoveHostname(MoveToEventData(DiscardUnneeded(MoveEventId(source)))))
    ELSE source

\* lines 134-136
EventDataRule(source) ==
    IF IsExc(source) THEN source
    ELSE IF Has(source, "event_data")
         THEN Drop(PutWinlog(source, "event_data", Get(source, "event_data")), "event_data")
         ELSE source

\* lines 138-140
LogNameRule(source) ==
    IF IsExc(source) THEN source
    ELSE IF Has(source, "log_name")
         THEN Drop(PutWinlog(source, "channel", Get(source, "log_name")), "log_name")
         ELSE source

\* lines 142-146: only KeyError is caught
SecurityRule(source) ==
    IF IsExc(source) THEN source
    ELSE IF ~IsDict(Get(source, "winlog")) THEN Exc("TypeError")
    ELSE IF ~Has(Get(source, "winlog"), "channel") THEN source
    ELSE IF Get(Get(source, "winlog"), "channel") = Str("security")
         THEN PutWinlog(source, "channel", Str("Security"))
         ELSE source

EventIdRuleIfUnset(source) ==
    IF IsExc(source) THEN source
    ELSE IF Has(source, "event_id") /\ Has(Get(source, "winlog"), "event_id")
         THEN Del(source, "event_id")
         ELSE IF Has(source, "event_id")
              THEN Drop(PutWinlog(source, "event_id", Get(source, "event_id")), "event_id")
              ELSE source

\* lines 148-150
EventIdRule(source) ==
    IF IsExc(source) THEN source
    ELSE IF Has(source, "event_id")
         THEN Drop(PutWinlog(source, "event_id", Get(source, "event_id")), "event_id")
         ELSE source

EventCodeRuleKeepExisting(source) ==
    IF IsExc(source) THEN source
    ELSE IF ~Has(Get(source, "winlog"), "event_id") THEN Exc("KeyError")
    ELSE IF ~Has(source, "event")
         THEN Put(source, "event", Dict([code |-> Get(Get(source, "winlog"), "event_id")]))
         ELSE IF ~IsDict(Get(source, "event")) THEN Exc("TypeError")
              ELSE IF Has(Get(source, "event"), "code") THEN source
                   ELSE Put(source, "event", Put(Get(source, "event"), "code", Get(Get(source, "winlog"), "event_id")))

\* line 152: the right-hand side is evaluated first (KeyError when winlog has
\* no event_id), then setdefault, then the item assignment (TypeError when
\* event is not a mapping)
EventCodeRule(source) ==
    IF IsExc(source) THEN source
    ELSE IF ~Has(Get(source, "winlog"), "event_id") THEN Exc("KeyError")
    ELSE IF ~Has(source, "event")
         THEN Put(source, "event", Dict([code |-> Get(Get(source, "winlog"), "event_id")]))
         ELSE IF ~IsDict(Get(source, "event")) THEN Exc("TypeError")
              ELSE Put(source, "event", Put(Get(source, "event"), "code", Get(Get(source, "winlog"), "event_id")))

\* lines 90-152 applied to a decoded record
Normalize(record, logfile) ==
    EventCodeRule(EventIdRule(SecurityRule(LogNameRule(EventDataRule(NxlogRule(
        SetDefaultWinlog(SetLog(record, logfile))))))))

\* lines 89-152: the line decoded, then the rules
LoadAndNormalize(line, logfile) ==
    IF IsExc(JsonLoads(line)) THEN JsonLoads(line) ELSE Normalize(JsonLoads(line), logfile)

\* lines 155-161: what the generator yields for the active output
Action(output, source) ==
    IF output = "elasticsearch"
    THEN Dict([_index |-> Str("winlogbeat-mordor"), _source |-> source])
    ELSE source

\* the document inside a yielded action
SourceOf(output, action) == IF output = "elasticsearch" THEN Get(action, "_source") ELSE action

(***************************************************************************)
(* Raw records the rules are exercised on: every mapping with at most      *)
(* MaxKeys of the keys the rules look at, each with one of a few values.   *)
(***************************************************************************)
MaxKeys == 5

KeySeq ==
    <<"EventID", "event_id", "event_data", "log_name", "Channel", "Hostname", "type",
      "host", "@timestamp", "@version", "winlog", "log", "event", "Foo">>

ValuesOf(k) ==
    CASE k = "EventID" -> {Str("7"), Str("42")}
      [] k = "event_id" -> {Str("99")}
      [] k = "event_data" -> {Dict([Bar |-> Str("baz")])}
      [] k = "log_name" -> {Str("security"), Str("System")}
      [] k = "Channel" -> {Str("security"), Str("Security")}
      [] k = "Hostname" -> {Str("H1")}
      [] k = "winlog" -> {EmptyDict, Dict([event_id |-> Str("5")]),
                          Dict([channel |-> Str("security")]),
                          Dict([event_id |-> Str("5"), event_data |-> Dict([Old |-> Str("o")])]),
                          Str("w")}
      [] k = "log" -> {Str("old.log")}
      [] k = "event" -> {Dict([code |-> Str("1")]), Dict([kind |-> Str("k")]), Str("e")}
      [] k = "Foo" -> {Str("bar")}
      [] OTHER -> {Str("t")}

RECURSIVE RawUpTo(_, _)
\* the mappings over the first i keys of KeySeq that have at most n keys
RawUpTo(i, n) ==
    IF i = 0 THEN {EmptyDict}
    ELSE LET shorter == RawUpTo(i - 1, n)
         IN  shorter \cup {Put(r, KeySeq[i], v) :
                              r \in {q \in shorter : Cardinality(Keys(q)) < n},
                              v \in ValuesOf(KeySeq[i])}

RawRecords(n) == RawUpTo(Len(KeySeq), n)

Labels == {"a.tar.gz/m1.json", "b.tar.gz/m2.json"}

Outputs == {"elasticsearch", "logstash"}

VARIABLES
    output,         \* args.output
    nraw,           \* rules alone: the decoded line, json.loads(line)
    nlabel,         \* rules alone: logfile
    nout,           \* rules alone: source after line 152, or the exception raised
    nyield,         \* rules alone: the action yielded at lines 155-161
    nagain,         \* rules alone: the rules applied to nout once more
    npc,            \* rules alone: position in the generator body
    paths,          \* the archives, each a sequence of members [isfile, size]
    pc,             \* position of the script
    error,          \* name of the uncaught exception, "none" while there is none
    exit_code,      \* exit status of the process, -1 while it runs
    total_size,     \* line 69
    si,             \* archives opened so far by the size scan
    opens,          \* calls of tarfile.open so far
    ai,             \* index in paths of the archive being imported
    mi,             \* index of the member the loop of line 82 is at
    off,            \* bytes of the member already consumed by "for line in f"
    progress,       \* progress.value
    total_success,  \* line 75
    total_failed,   \* line 76
    success_count,
    fail_count,
    color,          \* "unset" until the first assignment to color
    chunk,          \* number of actions bulk() has pulled and not yet submitted
    bulk_success,   \* bulk(): documents accepted so far in this call
    bulk_failed,    \* bulk(): documents rejected so far in this call
    readCount,      \* history: lines "for line in f" has produced
    lastRead,       \* history: the last of them, [a, m, off, len]
    sentCount,      \* history: records yielded to the sink
    lastSent,       \* history: the line of the last of them
    acked,          \* history: records whose send has been answered
    memBytes,       \* history: bytes added to progress for the current member
    memOk,          \* history: records of the current member the sink accepted
    memBad,         \* history: records of the current member the sink rejected
    completed,      \* history: members whose stream has ended
    lastCompleted,  \* history: the last of them, with the counters it ended with
    sumSuccess,     \* history: success counts of the completed members, summed
    sumFail,        \* history: fail counts of the completed members, summed
    summaries,      \* history: per-member summaries printed at line 183
    lastSummary,    \* history: the last of them
    totalPrinted    \* history: times line 185 printed the run-wide total

nvars == <<nraw, nlabel, nout, nyield, nagain, npc>>

\* lines 68-73
scanvars == <<total_size, si, opens>>

\* lines 75-76, 163-182
countvars == <<total_success, total_failed, success_count, fail_count, color>>

\* line 163, the state of one call of bulk()
bulkvars == <<chunk, bulk_success, bulk_failed>>

readhist == <<readCount, lastRead, sentCount, lastSent>>

memhist == <<memBytes, memOk, memBad>>

outhist == <<completed, lastCompleted, sumSuccess, sumFail, summaries, lastSummary, totalPrinted>>

pvars ==
    <<paths, pc, error, exit_code, scanvars, ai, mi, off, progress, countvars, bulkvars,
      readhist, acked, memhist, outhist>>

vars == <<output, nvars, pvars>>

None == Str("<none>")

NoLine == [a |-> 0, m |-> 0, off |-> 0, len |-> 0]

NoMember == [a |-> 0, m |-> 0, success |-> 0, fail |-> 0, ok |-> 0, bad |-> 0]

\* the script before line 25
PipelineStart ==
    /\ error = "none" /\ exit_code = -1
    /\ total_size = 0 /\ si = 0 /\ opens = 0 /\ ai = 0 /\ mi = 0 /\ off = 0
    /\ progress = 0 /\ total_success = 0 /\ total_failed = 0
    /\ success_count = 0 /\ fail_count = 0 /\ color = "unset"
    /\ chunk = 0 /\ bulk_success = 0 /\ bulk_failed = 0
    /\ readCount = 0 /\ lastRead = NoLine /\ sentCount = 0 /\ lastSent = NoLine
    /\ acked = 0 /\ memBytes = 0 /\ memOk = 0 /\ memBad = 0
    /\ completed = 0 /\ lastCompleted = NoMember /\ sumSuccess = 0 /\ sumFail = 0
    /\ summaries = 0 /\ lastSummary = NoMember /\ totalPrinted = 0

\* the rules at rest, while the pipeline runs
NormIdle ==
    /\ nraw = None /\ nlabel = "" /\ nout = None /\ nyield = None /\ nagain = None
    /\ npc = "idle"

InitNorm ==
    /\ output \in Outputs
    /\ nraw \in RawRecords(MaxKeys)
    /\ nlabel \in Labels
    /\ nout = None
    /\ nyield = None
    /\ nagain = None
    /\ npc = "loaded"
    /\ paths = <<>>
    /\ pc = "idle"
    /\ PipelineStart

\* lines 90-152 on the decoded line
NormApply ==
    /\ npc = "loaded"
    /\ nout' = Normalize(nraw, nlabel)
    /\ npc' = IF IsExc(nout') THEN "raised" ELSE "normalized"
    /\ UNCHANGED <<output, nraw, nlabel, nyield, nagain, pvars>>

\* lines 155-161: the record is handed to the sink
NormYield ==
    /\ npc = "normalized"
    /\ nyield' = Action(output, nout)
    /\ npc' = "yielded"
    /\ UNCHANGED <<output, nraw, nlabel, nout, nagain, pvars>>

\* the rules applied to their own output, same label
NormReapply ==
    /\ npc = "yielded"
    /\ nagain' = Normalize(nout, nlabel)
    /\ npc' = "reapplied"
    /\ UNCHANGED <<output, nraw, nlabel, nout, nyield, pvars>>

NextNorm == NormApply \/ NormYield \/ NormReapply

SpecNorm == InitNorm /\ [][NextNorm]_vars

(***************************************************************************)
(* The shipping loop, lines 25-185.                                        *)
(***************************************************************************)
\* archives of a run
MaxArchives == 2

\* members of a run, over all its archives
MaxMembers == 2

\* bytes of a member
MaxSize == 2

\* chunk_size of elasticsearch.helpers.bulk, scaled down
ChunkSize == 2

SeqsUpTo(S, n) == UNION {[1..k -> S] : k \in 0..n}

\* a member of an archive: a file of any size up to MaxSize, or an entry
\* that is no file (its header carries a size all the same)
Members ==
    {[isfile |-> TRUE, size |-> s] : s \in 0..MaxSize} \cup {[isfile |-> FALSE, size |-> MaxSize]}

\* the members ms dealt out to n archives in order, member i to archive owner[i]
Split(ms, owner, n) ==
    [a \in 1..n |->
        [j \in 1..Cardinality({i \in DOMAIN ms : owner[i] = a}) |->
            ms[Cardinality({i \in DOMAIN ms : owner[i] < a}) + j]]]

\* every run of at most MaxArchives archives holding at most MaxMembers members
Paths ==
    UNION {{Split(ms, owner, n) :
                <<owner, n>> \in
                    {t \in [1..Len(ms) -> 1..MaxArchives] \X (0..MaxArchives) :
                        /\ \A i \in 1..Len(ms) : t[1][i] <= t[2]
                        /\ \A i \in 1..(Len(ms) - 1) : t[1][i] <= t[1][i + 1]}} :
            ms \in SeqsUpTo(Members, MaxMembers)}

\* line 15: anything can be passed to --output
OutputArgs == {"elasticsearch", "logstash", "kafka"}

\* line 174: r.status_code
Statuses == {200, 201, 500}

NxlogLine ==
    Dict([EventID |-> Str("7"), Foo |-> Str("bar"), Hostname |-> Str("H1"),
          Channel |-> Str("Security")])

BeatLine == Dict([event_id |-> Str("99"), log_name |-> Str("security")])

NoIdLine == Dict([Foo |-> Str("bar")])

\* what a line of a member can hold
LineContents == {NxlogLine, BeatLine, NoIdLine, BadJson}

\* line 85: f"{path}/{m.name}"
Logfile(a, m) == "p" \o ToString(a) \o ".tar.gz/m" \o ToString(m) \o ".json"

RECURSIVE FileSizesAll(_, _)
FileSizesAll(archive, n) ==
    IF n = 0 THEN 0 ELSE FileSizesAll(archive, n - 1) + archive[n].size

RECURSIVE FileSizes(_, _)
\* lines 70-72: member.size summed over the first n members that are files
FileSizes(archive, n) ==
    IF n = 0 THEN 0
    ELSE FileSizes(archive, n - 1) + (IF archive[n].isfile THEN archive[n].size ELSE 0)

\* sys.exit(arg): no argument is exit status 0
SysExit(arg) == IF arg = "None" THEN 0 ELSE 1

OnGeneratorErrorSkipMember(exc) == "summary"

\* lines 88-152 sit in no try block: an exception raised in the generator
\* leaves bulk() or the for loop of line 173 and ends the script
OnGeneratorError(exc) == "crashed"

IsSuccessAny2xx(code) == code >= 200 /\ code < 300

\* line 175
IsSuccess(code) == code = 200

AfterYieldNoPost(out, pending) ==
    IF out = "logstash" THEN "pull"
    ELSE IF pending >= ChunkSize THEN "flush" ELSE "pull"

\* where control goes when the generator has yielded: the body of the for
\* loop of line 173, or back into bulk(), which submits a full chunk
AfterYield(out, pending) ==
    IF out = "logstash" THEN "post"
    ELSE IF pending >= ChunkSize THEN "flush" ELSE "pull"

Init ==
    /\ output \in OutputArgs
    /\ paths \in Paths
    /\ pc = "select"
    /\ PipelineStart
    /\ NormIdle

\* lines 25-58: a recognized output
SelectSink ==
    /\ pc = "select"
    /\ output \in {"elasticsearch", "logstash"}
    /\ pc' = "scan"
    /\ UNCHANGED <<output, nvars, paths, error, exit_code, scanvars, ai, mi, off, progress,
                   countvars, bulkvars, readhist, acked, memhist, outhist>>

\* lines 59-61
ExitUnrecognized ==
    /\ pc = "select"
    /\ output \notin {"elasticsearch", "logstash"}
    /\ pc' = "exited"
    /\ exit_code' = SysExit("None")
    /\ UNCHANGED <<output, nvars, paths, error, scanvars, ai, mi, off, progress,
                   countvars, bulkvars, readhist, acked, memhist, outhist>>

\* lines 69-73, one archive of the comprehension
ScanArchive ==
    /\ pc = "scan"
    /\ si < Len(paths)
    /\ si' = si + 1
    /\ opens' = opens + 1
    /\ total_size' = total_size + FileSizes(paths[si + 1], Len(paths[si + 1]))
    /\ UNCHANGED <<output, nvars, paths, pc, error, exit_code, ai, mi, off, progress,
                   countvars, bulkvars, readhist, acked, memhist, outhist>>

\* lines 75-78
StartImport ==
    /\ pc = "scan"
    /\ si = Len(paths)
    /\ total_success' = 0
    /\ total_failed' = 0
    /\ progress' = 0
    /\ ai' = 1
    /\ pc' = "archive"
    /\ UNCHANGED <<output, nvars, paths, error, exit_code, scanvars, mi, off,
                   success_count, fail_count, color, bulkvars, readhist, acked, memhist,
                   outhist>>

\* lines 79-81
OpenArchive ==
    /\ pc = "archive"
    /\ ai <= Len(paths)
    /\ opens' = opens + 1
    /\ mi' = 1
    /\ pc' = "member"
    /\ UNCHANGED <<output, nvars, paths, error, exit_code, total_size, si, ai, off, progress,
                   countvars, bulkvars, readhist, acked, memhist, outhist>>

\* line 83, a member that is not a file
SkipMember ==
    /\ pc = "member"
    /\ mi <= Len(paths[ai])
    /\ ~paths[ai][mi].isfile
    /\ mi' = mi + 1
    /\ UNCHANGED <<output, nvars, paths, pc, error, exit_code, scanvars, ai, off, progress,
                   countvars, bulkvars, readhist, acked, memhist, outhist>>

\* lines 83-86, then line 163 (bulk is called) or lines 171-173
OpenMember ==
    /\ pc = "member"
    /\ mi <= Len(paths[ai])
    /\ paths[ai][mi].isfile
    /\ off' = 0
    /\ memBytes' = 0
    /\ memOk' = 0
    /\ memBad' = 0
    /\ IF output = "elasticsearch"
       THEN /\ chunk' = 0
            /\ bulk_success' = 0
            /\ bulk_failed' = 0
            /\ UNCHANGED <<success_count, fail_count>>
       ELSE /\ fail_count' = 0
            /\ success_count' = 0
            /\ UNCHANGED bulkvars
    /\ pc' = "pull"
    /\ UNCHANGED <<output, nvars, paths, error, exit_code, scanvars, ai, mi, progress,
                   total_success, total_failed, color, readhist, acked, outhist>>

\* line 184
CloseArchive ==
    /\ pc = "member"
    /\ mi > Len(paths[ai])
    /\ ai' = ai + 1
    /\ pc' = "archive"
    /\ UNCHANGED <<output, nvars, paths, error, exit_code, scanvars, mi, off, progress,
                   countvars, bulkvars, readhist, acked, memhist, outhist>>

\* the counters of the member at (ai, mi) when its stream has ended
Outcome(success, fail) ==
    [a |-> ai, m |-> mi, success |-> success, fail |-> fail, ok |-> memOk, bad |-> memBad]

\* lines 88-161: the generator is asked for its next action and the member
\* has another line, of len bytes
PullLine ==
    /\ pc = "pull"
    /\ off < paths[ai][mi].size
    /\ \E len \in 1..(paths[ai][mi].size - off), line \in LineContents :
         LET id == [a |-> ai, m |-> mi, off |-> off, len |-> len]
             source == LoadAndNormalize(line, Logfile(ai, mi))
         IN  /\ readCount' = readCount + 1
             /\ lastRead' = id
             /\ off' = off + len
             /\ IF IsExc(source)
                THEN /\ pc' = OnGeneratorError(source[2])
                     /\ error' = source[2]
                     /\ exit_code' = 1
                     /\ UNCHANGED <<progress, memBytes, sentCount, lastSent, chunk>>
                ELSE /\ progress' = progress + len
                     /\ memBytes' = memBytes + len
                     /\ sentCount' = sentCount + 1
                     /\ lastSent' = id
                     /\ chunk' = IF output = "elasticsearch" THEN chunk + 1 ELSE chunk
                     /\ pc' = AfterYield(output, chunk')
                     /\ UNCHANGED <<error, exit_code>>
    /\ UNCHANGED <<output, nvars, paths, scanvars, ai, mi, countvars, bulk_success,
                   bulk_failed, acked, memOk, memBad, outhist>>

\* line 88: the member has no further line; the for loop of line 173 ends,
\* or bulk() goes on to submit what it still holds
PullEnd ==
    /\ pc = "pull"
    /\ off = paths[ai][mi].size
    /\ IF output = "logstash"
       THEN /\ completed' = completed + 1
            /\ lastCompleted' = Outcome(success_count, fail_count)
            /\ sumSuccess' = sumSuccess + success_count
            /\ sumFail' = sumFail + fail_count
            /\ pc' = "summary"
       ELSE /\ pc' = IF chunk > 0 THEN "flush" ELSE "bulkret"
            /\ UNCHANGED <<completed, lastCompleted, sumSuccess, sumFail>>
    /\ UNCHANGED <<output, nvars, paths, error, exit_code, scanvars, ai, mi, off, progress,
                   countvars, bulkvars, readhist, acked, memhist, summaries, lastSummary,
                   totalPrinted>>

\* lines 174-182; memOk and memBad log whether the status was 200
Post ==
    /\ pc = "post"
    /\ \E code \in Statuses :
         /\ IF IsSuccess(code)
            THEN /\ success_count' = success_count + 1
                 /\ total_success' = total_success + 1
                 /\ color' = "green"
                 /\ UNCHANGED <<fail_count, total_failed>>
            ELSE /\ fail_count' = fail_count + 1
                 /\ total_failed' = total_failed + 1
                 /\ color' = "red"
                 /\ UNCHANGED <<success_count, total_success>>
         /\ memOk' = IF code = 200 THEN memOk + 1 ELSE memOk
         /\ memBad' = IF code = 200 THEN memBad ELSE memBad + 1
    /\ acked' = acked + 1
    /\ pc' = "pull"
    /\ UNCHANGED <<output, nvars, paths, error, exit_code, scanvars, ai, mi, off, progress,
                   bulkvars, readhist, memBytes, outhist>>

\* line 163, inside bulk(): a chunk is submitted and every document of it is
\* accepted or rejected (raise_on_error=False: rejections are counted)
Flush ==
    /\ pc = "flush"
    /\ \E accepted \in 0..chunk :
         /\ bulk_success' = bulk_success + accepted
         /\ bulk_failed' = bulk_failed + (chunk - accepted)
         /\ memOk' = memOk + accepted
         /\ memBad' = memBad + (chunk - accepted)
    /\ acked' = acked + chunk
    /\ chunk' = 0
    /\ pc' = IF chunk < ChunkSize THEN "bulkret" ELSE "pull"
    /\ UNCHANGED <<output, nvars, paths, error, exit_code, scanvars, ai, mi, off, progress,
                   countvars, readhist, memBytes, outhist>>

\* lines 163-169: bulk() returns its two counts (stats_only is True)
BulkReturn ==
    /\ pc = "bulkret"
    /\ success_count' = bulk_success
    /\ fail_count' = bulk_failed
    /\ total_success' = total_success + bulk_success
    /\ total_failed' = total_failed + bulk_failed
    /\ color' = IF bulk_failed > 0 THEN "red" ELSE "green"
    /\ completed' = completed + 1
    /\ lastCompleted' = Outcome(bulk_success, bulk_failed)
    /\ sumSuccess' = sumSuccess + bulk_success
    /\ sumFail' = sumFail + bulk_failed
    /\ pc' = "summary"
    /\ UNCHANGED <<output, nvars, paths, error, exit_code, scanvars, ai, mi, off, progress,
                   bulkvars, readhist, acked, memhist, summaries, lastSummary, totalPrinted>>

\* line 183
PrintSummary ==
    /\ pc = "summary"
    /\ color # "unset"
    /\ summaries' = summaries + 1
    /\ lastSummary' = [a |-> ai, m |-> mi, success |-> success_count, fail |-> fail_count,
                       ok |-> memOk, bad |-> memBad]
    /\ mi' = mi + 1
    /\ pc' = "member"
    /\ UNCHANGED <<output, nvars, paths, error, exit_code, scanvars, ai, off, progress,
                   countvars, bulkvars, readhist, acked, memhist, completed, lastCompleted,
                   sumSuccess, sumFail, totalPrinted>>

\* line 183 when no statement has assigned color yet: NameError
SummaryNameError ==
    /\ pc = "summary"
    /\ color = "unset"
    /\ pc' = "crashed"
    /\ error' = "NameError"
    /\ exit_code' = 1
    /\ UNCHANGED <<output, nvars, paths, scanvars, ai, mi, off, progress,
                   countvars, bulkvars, readhist, acked, memhist, outhist>>

\* line 185, and the script ends
PrintTotal ==
    /\ pc = "archive"
    /\ ai > Len(paths)
    /\ totalPrinted' = totalPrinted + 1
    /\ pc' = "done"
    /\ exit_code' = 0
    /\ UNCHANGED <<output, nvars, paths, error, scanvars, ai, mi, off, progress,
                   countvars, bulkvars, readhist, acked, memhist, completed, lastCompleted,
                   sumSuccess, sumFail, summaries, lastSummary>>

Next ==
    \/ SelectSink
    \/ ExitUnrecognized
    \/ ScanArchive
    \/ StartImport
    \/ OpenArchive
    \/ SkipMember
    \/ OpenMember
    \/ CloseArchive
    \/ PullLine
    \/ PullEnd
    \/ Post
    \/ Flush
    \/ BulkReturn
    \/ PrintSummary
    \/ SummaryNameError
    \/ PrintTotal

Spec == Init /\ [][Next]_vars

(***************************************************************************)
(* Properties of the normalisation rules, checked under SpecNorm.          *)
(***************************************************************************)
\* the record handed to the sink
Shipped == SourceOf(output, nyield)

Handed == npc \in {"yielded", "reapplied"}

\* C1: every record handed to a sink has event.code, has winlog.event_id, and
\* the two are equal, whichever rule supplied the event id.
C1_EventCodeMirrorsEventId ==
    Handed =>
        /\ Has(Shipped, "event") /\ IsDict(Get(Shipped, "event"))
        /\ Has(Get(Shipped, "event"), "code")
        /\ Has(Get(Shipped, "winlog"), "event_id")
        /\ Get(Get(Shipped, "event"), "code") = Get(Get(Shipped, "winlog"), "event_id")

\* a record is handed over whose raw form had a top-level event_id, another
\* winlog.event_id and a stale event.code
C1_Witness ==
    /\ npc = "yielded"
    /\ Has(nraw, "event_id") /\ Has(nraw, "winlog") /\ Has(nraw, "event")
    /\ Get(nraw, "winlog") = Dict([event_id |-> Str("5")])
    /\ Get(nraw, "event") = Dict([code |-> Str("1")])

\* C2 as stated: whenever the raw record has a top-level event_id, the record
\* handed over has winlog.event_id and event.code equal to it, also when the
\* raw record has EventID too.
C2_EventIdFinalAuthority ==
    (Handed /\ Has(nraw, "event_id")) =>
        /\ Get(Get(nout, "winlog"), "event_id") = Get(nraw, "event_id")
        /\ Get(Get(nout, "event"), "code") = Get(nraw, "event_id")

\* C2 amended: a top-level event_id decides winlog.event_id and event.code when
\* the raw record has no EventID; when it has one, EventID decides both and
\* the top-level event_id is moved to winlog.event_data.event_id.
C2_EventIdPrecedence ==
    (Handed /\ Has(nraw, "event_id")) =>
        IF Has(nraw, "EventID")
        THEN /\ Get(Get(nout, "winlog"), "event_id") = Get(nraw, "EventID")
             /\ Get(Get(nout, "event"), "code") = Get(nraw, "EventID")
             /\ ~Has(nout, "event_id")
             /\ Has(Get(Get(nout, "winlog"), "event_data"), "event_id")
             /\ Get(Get(Get(nout, "winlog"), "event_data"), "event_id") = Get(nraw, "event_id")
        ELSE /\ Get(Get(nout, "winlog"), "event_id") = Get(nraw, "event_id")
             /\ Get(Get(nout, "event"), "code") = Get(nraw, "event_id")
             /\ ~Has(nout, "event_id")

\* a record with EventID 42 and event_id 99 has been handed over
C2_Witness ==
    /\ npc = "yielded"
    /\ Has(nraw, "EventID") /\ Get(nraw, "EventID") = Str("42")
    /\ Has(nraw, "event_id") /\ Get(nraw, "event_id") = Str("99")

\* C3: the rules applied to their own output, with the same label, return
\* that output unchanged.
C3_Idempotent == (npc = "reapplied") => (nagain = nout)

\* the rules have been reapplied to the output of a legacy record that had a
\* lowercase channel and fields to relocate
C3_Witness ==
    /\ npc = "reapplied"
    /\ Has(nraw, "EventID") /\ Has(nraw, "Foo")
    /\ Has(nraw, "Channel") /\ Get(nraw, "Channel") = Str("security")

\* the reserved set as C4 states it
C4_Reserved == {"winlog", "log", "Channel", "Hostname", "@timestamp", "@version"}

C4_Example ==
    Dict([k \in {"EventID", "Foo", "Hostname", "Channel", "@timestamp"} |->
            CASE k = "EventID" -> Str("7")
              [] k = "Foo" -> Str("bar")
              [] k = "Hostname" -> Str("H1")
              [] k = "Channel" -> Str("Security")
              [] OTHER -> Str("t")])

C4_ExampleResult ==
    Dict([k \in {"winlog", "event", "@timestamp", "log"} |->
            CASE k = "winlog" -> Dict([event_id |-> Str("7"), event_data |-> Dict([Foo |-> Str("bar")]),
                                       computer_name |-> Str("H1"), channel |-> Str("Security")])
              [] k = "event" -> Dict([code |-> Str("7")])
              [] k = "log" -> Dict([file |-> Dict([name |-> Str(nlabel)])])
              [] OTHER -> Str("t")])

\* what C4 and its amendment share: EventID, type and host are gone, Hostname
\* is winlog.computer_name, Channel is winlog.channel (spelt "Security" when it
\* was "security", the rule of lines 142-146), the two @ keys stay, and the
\* example comes out as stated
C4_Common ==
    /\ \A k \in {"EventID", "type", "host"} : ~Has(nout, k)
    /\ Has(nraw, "Hostname") =>
          /\ ~Has(nout, "Hostname")
          /\ Has(Get(nout, "winlog"), "computer_name")
          /\ Get(Get(nout, "winlog"), "computer_name") = Get(nraw, "Hostname")
    /\ Has(nraw, "Channel") =>
          /\ ~Has(nout, "Channel")
          /\ Has(Get(nout, "winlog"), "channel")
          /\ Get(Get(nout, "winlog"), "channel") =
                (IF Get(nraw, "Channel") = Str("security") THEN Str("Security") ELSE Get(nraw, "Channel"))
    /\ \A k \in {"@timestamp", "@version"} : Has(nraw, k) => (Has(nout, k) /\ Get(nout, k) = Get(nraw, k))
    /\ (nraw = C4_Example) => (nout = C4_ExampleResult)

\* C4 as stated: for a raw record with EventID, every top-level key outside
\* the reserved set is in winlog.event_data with its value and at top level no
\* more.
C4_RelocatesCompletely ==
    (Handed /\ Has(nraw, "EventID")) =>
        /\ C4_Common
        /\ \A k \in Keys(nraw) \ (C4_Reserved \cup {"EventID", "type", "host"}) :
              /\ ~Has(nout, k)
              /\ Has(Get(Get(nout, "winlog"), "event_data"), k)
              /\ Get(Get(Get(nout, "winlog"), "event_data"), k) = Get(nraw, k)

\* C4 amended: as stated, except that a raw key event, moved to
\* winlog.event_data like the others, is at top level again, as the new
\* mapping {code: EventID}.
C4_RelocatesExceptEvent ==
    (Handed /\ Has(nraw, "EventID")) =>
        /\ C4_Common
        /\ \A k \in Keys(nraw) \ (C4_Reserved \cup {"EventID", "type", "host"}) :
              /\ (k # "event") => ~Has(nout, k)
              /\ Has(Get(Get(nout, "winlog"), "event_data"), k)
              /\ Get(Get(Get(nout, "winlog"), "event_data"), k) = Get(nraw, k)
        /\ Get(nout, "event") = Dict([code |-> Get(nraw, "EventID")])

\* the example record of C4 has been handed over
C4_Witness == npc = "yielded" /\ nraw = C4_Example

(***************************************************************************)
(* Properties of the shipping loop, checked under Spec.                    *)
(***************************************************************************)
\* the members of the run, <<archive, member>>
Positions ==
    {p \in (1..MaxArchives) \X (1..MaxMembers) : p[1] <= Len(paths) /\ p[2] <= Len(paths[p[1]])}

\* member (a1, m1) comes before member (a2, m2) in the run
Earlier(a1, m1, a2, m2) == a1 < a2 \/ (a1 = a2 /\ m1 < m2)

\* a member that holds lines
HasLines(p) == paths[p[1]][p[2]].isfile /\ paths[p[1]][p[2]].size > 0

EndsMember(l) == l.off + l.len = paths[l.a][l.m].size

\* the exceptions a line can raise in the generator
LineErrors == {"JSONDecodeError", "KeyError", "TypeError"}

\* C5 as stated: a line that is not JSON does not end the run.
C5_ParseFailureStopsMemberOnly == (error = "JSONDecodeError") => (pc # "crashed")

\* C5 amended: a line that is not JSON ends the whole run.  The script is over
\* with exit status 1 at the member of that line, the line is the last one
\* read and was not sent, the member has no summary and the run-wide total is
\* not printed.
C5_ParseFailureStopsRun ==
    (error = "JSONDecodeError") =>
        /\ pc = "crashed"
        /\ exit_code = 1
        /\ lastRead.a = ai /\ lastRead.m = mi
        /\ sentCount = readCount - 1
        /\ ~(lastCompleted.a = ai /\ lastCompleted.m = mi)
        /\ ~(lastSummary.a = ai /\ lastSummary.m = mi)
        /\ summaries = completed
        /\ totalPrinted = 0

\* a line that is not JSON was read while a later member still holds lines
C5_Witness ==
    /\ error = "JSONDecodeError"
    /\ \E p \in Positions : Earlier(ai, mi, p[1], p[2]) /\ HasLines(p)

\* C6: posting a record moves exactly one pair of counters, the success pair
\* when the status was 200 and the fail pair otherwise, and control returns to
\* the generator for the next record; whenever no member is in progress the
\* run-wide totals are the sums of the per-member counts, and at the end of the
\* run they add up to the number of records handed to the sink.
C6_RejectionsCounted ==
    /\ [](/\ (pc \in {"summary", "member", "archive", "done"}) =>
                (total_success = sumSuccess /\ total_failed = sumFail)
          /\ (pc = "done") => (total_success + total_failed = sentCount))
    /\ [][(pc = "post") =>
            /\ pc' = "pull"
            /\ acked' = acked + 1
            /\ IF memOk' = memOk + 1
               THEN /\ success_count' = success_count + 1 /\ total_success' = total_success + 1
                    /\ fail_count' = fail_count /\ total_failed' = total_failed
               ELSE /\ fail_count' = fail_count + 1 /\ total_failed' = total_failed + 1
                    /\ success_count' = success_count /\ total_success' = total_success]_vars

\* a run in post mode has ended whose last member had a rejected and an
\* accepted record
C6_Witness ==
    /\ output = "logstash" /\ pc = "done"
    /\ lastCompleted.fail >= 1 /\ lastCompleted.success >= 1

\* C7: the bytes added to the progress value for a member are the bytes of its
\* lines, and when the member's stream has ended they equal its size; the
\* progress value never decreases, never exceeds total_size, and equals it
\* when the run is over.
C7_ByteAccounting ==
    /\ [](/\ (pc \in {"archive", "member", "pull", "post", "flush", "bulkret", "summary",
                      "crashed", "done"}) => (progress <= total_size)
          /\ (pc \in {"bulkret", "summary"}) => (memBytes = paths[ai][mi].size)
          /\ (pc = "done") => (progress = total_size))
    /\ [][/\ progress' >= progress
          /\ (pc = "pull") => (progress' - progress = memBytes' - memBytes)
          /\ (sentCount' = sentCount + 1) => (progress' = progress + lastRead'.len)]_vars

\* a run is over that read two lines and skipped a member that is no file
C7_Witness ==
    /\ pc = "done" /\ readCount = 2 /\ progress = total_size
    /\ \E p \in Positions : ~paths[p[1]][p[2]].isfile /\ paths[p[1]][p[2]].size > 0

\* C8: with an unrecognized output the script is over at once with a non-zero
\* exit status, no archive opened, no size computed, no record sent.
C8_UnrecognizedSinkFatal ==
    (output \notin {"elasticsearch", "logstash"} /\ pc # "select") =>
        /\ pc = "exited"
        /\ exit_code # 0
        /\ opens = 0 /\ si = 0 /\ total_size = 0 /\ readCount = 0 /\ sentCount = 0

\* C9 as stated: every line read has been handed to the sink, the last line
\* sent is the last line read, and at the end of the run every line read has
\* had its send answered.
C9_EveryLineSent ==
    /\ sentCount = readCount
    /\ lastSent = lastRead
    /\ (pc = "done") => (acked = readCount)

\* line next follows line prev: the next bytes of the same member, or the
\* first bytes of a later member with no member holding lines in between
Follows(prev, next) ==
    /\ paths[next.a][next.m].isfile
    /\ next.len >= 1
    /\ next.off + next.len <= paths[next.a][next.m].size
    /\ IF prev.a = next.a /\ prev.m = next.m
       THEN next.off = prev.off + prev.len
       ELSE /\ next.off = 0
            /\ Earlier(prev.a, prev.m, next.a, next.m)
            /\ (prev # NoLine) => EndsMember(prev)
            /\ \A p \in Positions :
                  (Earlier(prev.a, prev.m, p[1], p[2]) /\ Earlier(p[1], p[2], next.a, next.m))
                      => ~HasLines(p)

\* C9 amended: the records handed to the sink are the lines read that decoded
\* and normalised, in the order read, each once; a line that raises is read,
\* yields no record and is the last line read.  Lines are read archive by
\* archive, member by member, byte range by byte range with none left out, no
\* send is answered twice, in post mode a line is read only when every earlier
\* send has been answered, and at the end of the run every line of every
\* member has been sent and answered.
C9_NormalisedLinesSentInOrder ==
    /\ [](/\ sentCount = (IF error \in LineErrors THEN readCount - 1 ELSE readCount)
          /\ (error \notin LineErrors) => (lastSent = lastRead)
          /\ (error \in LineErrors) => (pc = "crashed")
          /\ acked <= sentCount
          /\ (output = "logstash") => (acked = (IF pc = "post" THEN sentCount - 1 ELSE sentCount))
          /\ (pc = "done") =>
                /\ acked = sentCount
                /\ (lastRead # NoLine) => EndsMember(lastRead)
                /\ \A p \in Positions : Earlier(lastRead.a, lastRead.m, p[1], p[2]) => ~HasLines(p))
    /\ [][/\ readCount' \in {readCount, readCount + 1}
          /\ sentCount' \in {sentCount, sentCount + 1}
          /\ acked' >= acked
          /\ (readCount' = readCount) => (lastRead' = lastRead /\ sentCount' = sentCount)
          /\ (readCount' = readCount + 1) =>
                /\ Follows(lastRead, lastRead')
                /\ (output = "logstash") => (acked = readCount)
          /\ (sentCount' = sentCount + 1) => (lastSent' = lastRead')
          /\ (sentCount' = sentCount) => (lastSent' = lastSent)]_vars

\* a run in post mode is over that sent lines of two archives
C9_Witness ==
    /\ output = "logstash" /\ pc = "done"
    /\ sentCount >= 2 /\ acked = sentCount /\ lastSent.a = 2

\* C10: every member whose stream has ended has its summary, or is about to
\* get it; a summary carries the counts of its own member; the run-wide total
\* is printed once, at the end.
C10_EveryMemberSummarised ==
    /\ summaries = completed \/ (pc = "summary" /\ summaries = completed - 1)
    /\ (summaries > 0) =>
          /\ lastSummary.success = lastSummary.ok
          /\ lastSummary.fail = lastSummary.bad
    /\ totalPrinted = (IF pc = "done" THEN 1 ELSE 0)

====
